---- MODULE Spec2Model ----
(***************************************************************************)
(* Aegis Crypto-Watch: the logic engine (LogicEngine), the part of the UI  *)
(* that retains the analyzed set (UIStream.allCryptoData) and the API      *)
(* client's polling loop (APIClient).                                      *)
(*                                                                         *)
(* Numbers.  A JavaScript number is modelled as a record                    *)
(*   [nan |-> BOOLEAN, v |-> Int]                                           *)
(* where v counts units of 1/Scale (fixed point, Scale = 10^FracDigits).    *)
(* Arithmetic is exact on these decimals; binary floating-point rounding    *)
(* error is not modelled.  Infinity and exponent notation are not modelled. *)
(*                                                                         *)
(* Text.  The numeric-as-text fields of a raw ticker are sequences of       *)
(* one-character strings; parseFloat is computed on them.  Input texts      *)
(* carry at most FracDigits fractional digits.                              *)
(*                                                                         *)
(* Symbols are sequences of chunks (<<"BTC", "USDT">>); String.replace is   *)
(* computed chunk-wise.                                                     *)
(***************************************************************************)
EXTENDS Integers, Sequences, FiniteSets, TLC

VARIABLES
    previousAnalyzedData,   \* LogicEngine: analyzed set retained for the next diff
    allCryptoData,          \* UIStream: analyzed set received by the dataAnalyzed handler
    events,                 \* events triggered on document by the last processData call, in order
    newSignals,             \* local newSignals of the last processData call
    threw,                  \* whether the last processData call raised an exception
    lastTickerData,         \* argument of the last processData call
    ret,                    \* last direct call of a public function, with its result
    isPolling,              \* APIClient: isPolling
    pollingInterval,        \* APIClient: pollingInterval, 0 for null or the id of a timer
    intervalTimers,         \* ids of the interval timers set and not cleared
    timerCount,             \* number of setInterval calls so far
    retryCount,             \* APIClient: retryCount
    connectionStatus,       \* status last shown by updateConnectionStatus
    fetches,                \* fetchTickerData activations suspended at an await
    retryTimers,            \* number of pending retry timeouts
    fetchCount,             \* number of fetchTickerData activations started so far
    running,                \* processData activations begun and not yet returned, oldest first
    lastPoll,               \* the fetch whose snapshot processData was last called with, 0 if none
    settled,                \* the fetchTickerData activation settled last, with the events
                            \* its processTickerData triggered
    signalLogs,             \* UIStream: children of #signalLogs, top first (followed in SpecUI)
    logClock,               \* number of addSignalLog calls so far: the time an item is stamped with
    logsLength,             \* $logs.length in the last addSignalLog call
    directCalls             \* the last direct calls of processData, oldest first: the
                            \* argument of each and the new signals it found (SpecSequence)

engineVars == <<previousAnalyzedData, allCryptoData, events, newSignals, threw, lastTickerData>>

clientVars == <<isPolling, pollingInterval, intervalTimers, timerCount, retryCount,
                connectionStatus, fetches, retryTimers, fetchCount, running, lastPoll,
                settled>>

uiVars == <<signalLogs, logClock, logsLength>>

vars == <<engineVars, ret, clientVars, uiVars, directCalls>>

----------------------------------------------------------------------------
\* Bounds of the model

\* fractional decimal digits carried by a number
FracDigits == 1

\* symbols a polled snapshot may contain
NumSymbols == 2

\* largest |priceChangePercent| passed to calculateVolatilityScore directly
MaxPct == 60

\* largest limit passed to getTopGainers directly
MaxLimit == 6

\* fetchTickerData activations started in a run of the polling client
MaxFetches == 3

\* addSignalLog calls in a run of the log panel
MaxLogCalls == 52
\* number of direct processData calls kept in directCalls
MaxCalls == 3

----------------------------------------------------------------------------
\* JavaScript numbers

RECURSIVE Pow10(_)
Pow10(n) == IF n = 0 THEN 1 ELSE 10 * Pow10(n - 1)

Scale == Pow10(FracDigits)

NaN == [nan |-> TRUE, v |-> 0]
Num(units) == [nan |-> FALSE, v |-> units]
Int2Num(i) == Num(i * Scale)

\* relational operators: any comparison with NaN is false
Gt(a, b) == ~a.nan /\ ~b.nan /\ a.v > b.v
Lt(a, b) == ~a.nan /\ ~b.nan /\ a.v < b.v
Ge(a, b) == ~a.nan /\ ~b.nan /\ a.v >= b.v

MathAbs(a) == IF a.nan THEN NaN ELSE Num(IF a.v < 0 THEN -a.v ELSE a.v)

\* Math.min / Math.max return NaN when any argument is NaN
MathMin(a, b) == IF a.nan \/ b.nan THEN NaN ELSE IF a.v <= b.v THEN a ELSE b
MathMax(a, b) == IF a.nan \/ b.nan THEN NaN ELSE IF a.v >= b.v THEN a ELSE b

\* Math.round((a / d) * mul) for d > 0: the nearest integer, halves towards +Infinity
RoundDivMul(a, d, mul) ==
    IF a.nan \/ d.nan THEN NaN
    ELSE Int2Num((2 * a.v * mul + d.v) \div (2 * d.v))

\* b - a as used by a sort comparator
Minus(b, a) == IF a.nan \/ b.nan THEN NaN ELSE Num(b.v - a.v)

----------------------------------------------------------------------------
\* parseFloat on a text (a sequence of one-character strings)

DigitChars == {"0", "1", "2", "3", "4", "5", "6", "7", "8", "9"}

DigitVal(c) ==
    CASE c = "0" -> 0 [] c = "1" -> 1 [] c = "2" -> 2 [] c = "3" -> 3 [] c = "4" -> 4
      [] c = "5" -> 5 [] c = "6" -> 6 [] c = "7" -> 7 [] c = "8" -> 8 [] c = "9" -> 9

\* number of leading blanks of t from position i
RECURSIVE BlankRun(_, _)
BlankRun(t, i) ==
    IF i <= Len(t) /\ t[i] = " " THEN 1 + BlankRun(t, i + 1) ELSE 0

\* number of consecutive digits of t from position i
RECURSIVE DigitRun(_, _)
DigitRun(t, i) ==
    IF i <= Len(t) /\ t[i] \in DigitChars THEN 1 + DigitRun(t, i + 1) ELSE 0

\* value of the n digits of t from position i, read as an integer
RECURSIVE DigitsValue(_, _, _)
DigitsValue(t, i, n) ==
    IF n = 0 THEN 0 ELSE DigitsValue(t, i, n - 1) * 10 + DigitVal(t[i + n - 1])

\* the value of ni integer digits from position s1 and nf fractional digits after
\* the point that follows them; without a digit the result is NaN
DecimalValue(t, s1, ni, nf, neg) ==
    IF ni = 0 /\ nf = 0 THEN NaN
    ELSE LET kept  == IF nf > FracDigits THEN FracDigits ELSE nf
             units == DigitsValue(t, s1, ni) * Scale
                      + DigitsValue(t, s1 + ni + 1, kept) * Pow10(FracDigits - kept)
         IN  Num(IF neg THEN -units ELSE units)

ParseFraction(t, s1, ni, neg) ==
    IF s1 + ni <= Len(t) /\ t[s1 + ni] = "."
    THEN DecimalValue(t, s1, ni, DigitRun(t, s1 + ni + 1), neg)
    ELSE DecimalValue(t, s1, ni, 0, neg)

ParseSigned(t, s0) ==
    IF s0 <= Len(t) /\ t[s0] \in {"-", "+"}
    THEN ParseFraction(t, s0 + 1, DigitRun(t, s0 + 1), t[s0] = "-")
    ELSE ParseFraction(t, s0, DigitRun(t, s0), FALSE)

\* parseFloat: the longest prefix  blanks [sign] digits [. digits]  decides the value
parseFloat(t) == ParseSigned(t, 1 + BlankRun(t, 1))

----------------------------------------------------------------------------
\* Inputs

\* the elements of a sequence
Range(seq) == {seq[i] : i \in 1..Len(seq)}

\* n times the character "0"
RECURSIVE Zeros(_)
Zeros(n) == IF n = 0 THEN <<>> ELSE <<"0">> \o Zeros(n - 1)

\* the smallest decimal above 3.0 that FracDigits digits can write: 3.0...01
JustAbove3 == <<"3", ".">> \o Zeros(FracDigits - 1) \o <<"1">>

SymbolPool ==
    << <<"BTC", "USDT">>, <<"ETH", "USDT">>, <<"BNB", "USDT">>, <<"SOL", "USDT">>,
       <<"XRP", "USDT">>, <<"ADA", "USDT">>, <<"DOT", "USDT">>, <<"LTC", "USDT">>,
       <<"TRX", "USDT">>, <<"XLM", "USDT">> >>

Symbols == {SymbolPool[i] : i \in 1..NumSymbols}

RawTicker(symbol, pct, vol, last) ==
    [symbol |-> symbol, priceChangePercent |-> pct, quoteVolume |-> vol, lastPrice |-> last]

\* the numeric-as-text fields <<priceChangePercent, quoteVolume, lastPrice>> a ticker
\* of a polled snapshot may carry: a whale, a panic sell whose quoteVolume text is
\* empty, a gainer on the whale boundary, a record with no readable field
WhaleFields     == <<JustAbove3, <<"1", "0", "0", "0", "0", "0", "1">>, <<"7">>>>
PanicFields     == <<<<"-">> \o JustAbove3, <<>>, <<"0", ".", "5">>>>
BoundaryFields  == <<<<"3", ".", "0">>, <<"2", "0", "0", "0", "0", "0", "0">>, <<"4", "2">>>>
MalformedFields == <<<<"n", "/", "a">>, <<>>, <<"x">>>>

SnapshotFields == {WhaleFields, PanicFields, BoundaryFields, MalformedFields}
SignalFields   == {WhaleFields, PanicFields, BoundaryFields}

\* the arrays of tickers with pairwise different symbols (a symbol is the key of
\* a snapshot), every ticker carrying fields of the given set
SnapshotsOver(fields) ==
    UNION { { s \in [1..n -> {RawTicker(sym, f[1], f[2], f[3]) : sym \in Symbols, f \in fields}] :
                \A i, j \in 1..n : i # j => s[i].symbol # s[j].symbol }
            : n \in 0..NumSymbols }


\* ten tickers with the given priceChangePercent texts
TenTickers(pcts) ==
    [i \in 1..10 |-> RawTicker(SymbolPool[i], pcts[i],
                               <<"2", "0", "0", "0", "0", "0", "0">>, <<"1">>)]

\* 3 positive and 7 negative changes
ThreeUpSevenDown ==
    TenTickers(<< <<"-", "4">>, <<"7">>, <<"-", "1">>, <<"-", "0", ".", "5">>,
                  <<"2", ".", "5">>, <<"-", "2">>, <<"-", "9">>, <<"0", ".", "1">>,
                  <<"-", "3">>, <<"-", "6">> >>)

\* 7 positive changes, two of them equal, and 3 that are not positive
SevenUp ==
    TenTickers(<< <<"9">>, <<"-", "4">>, <<"1">>, <<"2", ".", "5">>,
                  <<"7">>, <<"0">>, <<"2", ".", "5">>, <<"0", ".", "1">>, <<"?">>,
                  <<"6">> >>)

\* 10 changes below -3.0
Crash ==
    TenTickers(<< <<"-", "5">>, <<"-", "4">>, <<"-", "8">>, <<"-", "3", ".", "5">>,
                  <<"-", "7">>, <<"-", "1", "2">>, <<"-", "9">>, <<"-", "4">>,
                  <<"-", "6">>, <<"-", "5", "1">> >>)

\* 10 changes above 3.0
Rally ==
    TenTickers(<< <<"5">>, <<"4">>, <<"8">>, <<"3", ".", "5">>, <<"7">>, <<"1", "2">>,
                  <<"9">>, <<"4">>, <<"6">>, <<"5", "1">> >>)

TenTickerSnapshots == {ThreeUpSevenDown, SevenUp, Crash, Rally}

\* the snapshots a tickerDataReceived event may carry
Snapshots == SnapshotsOver(SnapshotFields) \cup TenTickerSnapshots

\* priceChangePercent and quoteVolume texts around the thresholds of detectSignal,
\* with texts parseFloat cannot read and texts it reads a prefix of
PctTexts ==
    { <<"3", ".", "0">>, JustAbove3, <<"-", "3", ".", "0">>, <<"-">> \o JustAbove3,
      <<"2", ".", "9">>, <<"-", "2", ".", "9">>, <<"0">>, <<"1", "2", ".", "5">>,
      <<"-", "1", "2", ".", "5">>, <<"+", "5">>, <<" ", "4", ".", "2">>, <<".", "5">>,
      <<"3", ".", "0", "x">>, <<"a", "b", "c">>, <<"-">>, <<".">>, <<>> }

VolTexts ==
    { <<"1", "0", "0", "0", "0", "0", "0">>, <<"1", "0", "0", "0", "0", "0", "1">>,
      <<"1", "0", "0", "0", "0", "0", "0", ".", "0">>,
      <<"9", "9", "9", "9", "9", "9", ".", "9">>, <<"2", "0", "0", "0", "0", "0", "0">>,
      <<"0">>, <<"n", "/", "a">>, <<>> }

SignalTickers == {RawTicker(SymbolPool[1], p, q, <<"1">>) : p \in PctTexts, q \in VolTexts}

\* the numbers passed to calculateVolatilityScore directly
PctInputs == {NaN} \cup {Num(k) : k \in (0 - MaxPct * Scale)..(MaxPct * Scale)}

\* bodies of the ticker endpoint's responses: a whale next to a pair not quoted in
\* USDT, a panic seller listed before a pair of larger volume, and no pair at all
ResponseWhale ==
    << RawTicker(<<"ETH", "BTC">>, <<"9">>, <<"9", "0", "0", "0", "0", "0", "0">>, <<"1">>),
       RawTicker(SymbolPool[1], WhaleFields[1], WhaleFields[2], WhaleFields[3]) >>

ResponsePanic ==
    << RawTicker(SymbolPool[1], <<"-">> \o JustAbove3, <<"5", "0", "0">>, <<"0", ".", "5">>),
       RawTicker(SymbolPool[2], BoundaryFields[1], BoundaryFields[2], BoundaryFields[3]) >>

Responses == {ResponseWhale, ResponsePanic, <<>>}

----------------------------------------------------------------------------
\* LogicEngine configuration

WHALE_THRESHOLD_PRICE_CHANGE == Int2Num(3)
WHALE_THRESHOLD_VOLUME       == Int2Num(1000000)
PANIC_THRESHOLD_PRICE_CHANGE == Int2Num(-3)
VOLATILITY_HIGH_THRESHOLD    == Int2Num(5)
VOLATILITY_MEDIUM_THRESHOLD  == Int2Num(2)

SIGNAL_TYPES == {"WHALE_ACTIVITY", "PANIC_SELL", "NEUTRAL"}

----------------------------------------------------------------------------
\* LogicEngine functions

\* calculateVolatilityScore without Math.abs on line 37
calculateVolatilityScoreNoAbs(priceChangePercent) ==
    LET absChange == priceChangePercent
        branch ==
            IF Ge(absChange, VOLATILITY_HIGH_THRESHOLD)
            THEN [score |-> MathMin(Int2Num(100), RoundDivMul(absChange, Int2Num(10), 100)),
                  level |-> "high"]
            ELSE IF Ge(absChange, VOLATILITY_MEDIUM_THRESHOLD)
            THEN [score |-> RoundDivMul(absChange, VOLATILITY_HIGH_THRESHOLD, 70),
                  level |-> "medium"]
            ELSE [score |-> RoundDivMul(absChange, VOLATILITY_MEDIUM_THRESHOLD, 30),
                  level |-> "low"]
    IN  [score |-> MathMin(Int2Num(100), MathMax(Int2Num(0), branch.score)),
         level |-> branch.level]

\* calculateVolatilityScore with a low band that scores the distance from the
\* medium threshold instead of the change
calculateVolatilityScoreLowInverted(priceChangePercent) ==
    LET absChange == MathAbs(priceChangePercent)
        branch ==
            IF Ge(absChange, VOLATILITY_HIGH_THRESHOLD)
            THEN [score |-> MathMin(Int2Num(100), RoundDivMul(absChange, Int2Num(10), 100)),
                  level |-> "high"]
            ELSE IF Ge(absChange, VOLATILITY_MEDIUM_THRESHOLD)
            THEN [score |-> RoundDivMul(absChange, VOLATILITY_HIGH_THRESHOLD, 70),
                  level |-> "medium"]
            ELSE [score |-> RoundDivMul(Minus(VOLATILITY_MEDIUM_THRESHOLD, absChange),
                                       VOLATILITY_MEDIUM_THRESHOLD, 30),
                  level |-> "low"]
    IN  [score |-> MathMin(Int2Num(100), MathMax(Int2Num(0), branch.score)),
         level |-> branch.level]

\* calculateVolatilityScore dividing by 100 instead of 10 on line 42
calculateVolatilityScoreSlow(priceChangePercent) ==
    LET absChange == MathAbs(priceChangePercent)
        branch ==
            IF Ge(absChange, VOLATILITY_HIGH_THRESHOLD)
            THEN [score |-> MathMin(Int2Num(100), RoundDivMul(absChange, Int2Num(100), 100)),
                  level |-> "high"]
            ELSE IF Ge(absChange, VOLATILITY_MEDIUM_THRESHOLD)
            THEN [score |-> RoundDivMul(absChange, VOLATILITY_HIGH_THRESHOLD, 70),
                  level |-> "medium"]
            ELSE [score |-> RoundDivMul(absChange, VOLATILITY_MEDIUM_THRESHOLD, 30),
                  level |-> "low"]
    IN  [score |-> MathMin(Int2Num(100), MathMax(Int2Num(0), branch.score)),
         level |-> branch.level]

\* Math.floor in place of Math.round
FloorDivMul(a, d, mul) ==
    IF a.nan \/ d.nan THEN NaN ELSE Int2Num((a.v * mul) \div d.v)

\* calculateVolatilityScore with Math.floor in place of Math.round
calculateVolatilityScoreFloor(priceChangePercent) ==
    LET absChange == MathAbs(priceChangePercent)
        branch ==
            IF Ge(absChange, VOLATILITY_HIGH_THRESHOLD)
            THEN [score |-> MathMin(Int2Num(100), FloorDivMul(absChange, Int2Num(10), 100)),
                  level |-> "high"]
            ELSE IF Ge(absChange, VOLATILITY_MEDIUM_THRESHOLD)
            THEN [score |-> FloorDivMul(absChange, VOLATILITY_HIGH_THRESHOLD, 70),
                  level |-> "medium"]
            ELSE [score |-> FloorDivMul(absChange, VOLATILITY_MEDIUM_THRESHOLD, 30),
                  level |-> "low"]
    IN  [score |-> MathMin(Int2Num(100), MathMax(Int2Num(0), branch.score)),
         level |-> branch.level]

calculateVolatilityScore(priceChangePercent) ==
    LET absChange == MathAbs(priceChangePercent)
        branch ==
            IF Ge(absChange, VOLATILITY_HIGH_THRESHOLD)
            THEN [score |-> MathMin(Int2Num(100), RoundDivMul(absChange, Int2Num(10), 100)),
                  level |-> "high"]
            ELSE IF Ge(absChange, VOLATILITY_MEDIUM_THRESHOLD)
            THEN [score |-> RoundDivMul(absChange, VOLATILITY_HIGH_THRESHOLD, 70),
                  level |-> "medium"]
            ELSE [score |-> RoundDivMul(absChange, VOLATILITY_MEDIUM_THRESHOLD, 30),
                  level |-> "low"]
    IN  [score |-> MathMin(Int2Num(100), MathMax(Int2Num(0), branch.score)),
         level |-> branch.level]

\* detectSignal with >= and <= in place of > and < on lines 69, 70 and 80
detectSignalInclusive(tickerData) ==
    LET priceChangePercent == parseFloat(tickerData.priceChangePercent)
        volume == parseFloat(tickerData.quoteVolume)
    IN  IF Ge(priceChangePercent, WHALE_THRESHOLD_PRICE_CHANGE)
           /\ Ge(volume, WHALE_THRESHOLD_VOLUME)
        THEN [type |-> "WHALE_ACTIVITY",
              message |-> "WHALE ACTIVITY - Strong Buy Signal",
              priority |-> "high"]
        ELSE IF Ge(PANIC_THRESHOLD_PRICE_CHANGE, priceChangePercent)
        THEN [type |-> "PANIC_SELL",
              message |-> "PANIC SELL - Market Downturn",
              priority |-> "high"]
        ELSE [type |-> "NEUTRAL",
              message |-> "Normal Market Activity",
              priority |-> "low"]

\* detectSignal with the comparisons written as negations, !(a <= b) for a > b:
\* a NaN operand then passes them
detectSignalNegated(tickerData) ==
    LET priceChangePercent == parseFloat(tickerData.priceChangePercent)
        volume == parseFloat(tickerData.quoteVolume)
    IN  IF ~Ge(WHALE_THRESHOLD_PRICE_CHANGE, priceChangePercent)
           /\ ~Ge(WHALE_THRESHOLD_VOLUME, volume)
        THEN [type |-> "WHALE_ACTIVITY",
              message |-> "WHALE ACTIVITY - Strong Buy Signal",
              priority |-> "high"]
        ELSE IF ~Ge(priceChangePercent, PANIC_THRESHOLD_PRICE_CHANGE)
        THEN [type |-> "PANIC_SELL",
              message |-> "PANIC SELL - Market Downturn",
              priority |-> "high"]
        ELSE [type |-> "NEUTRAL",
              message |-> "Normal Market Activity",
              priority |-> "low"]

detectSignal(tickerData) ==
    LET priceChangePercent == parseFloat(tickerData.priceChangePercent)
        volume == parseFloat(tickerData.quoteVolume)
    IN  IF Gt(priceChangePercent, WHALE_THRESHOLD_PRICE_CHANGE)
           /\ Gt(volume, WHALE_THRESHOLD_VOLUME)
        THEN [type |-> "WHALE_ACTIVITY",
              message |-> "WHALE ACTIVITY - Strong Buy Signal",
              priority |-> "high"]
        ELSE IF Lt(priceChangePercent, PANIC_THRESHOLD_PRICE_CHANGE)
        THEN [type |-> "PANIC_SELL",
              message |-> "PANIC SELL - Market Downturn",
              priority |-> "high"]
        ELSE [type |-> "NEUTRAL",
              message |-> "Normal Market Activity",
              priority |-> "low"]

\* String.prototype.replace(pattern, '') with a string pattern: the first
\* occurrence is removed
RECURSIVE ReplaceFirst(_, _)
ReplaceFirst(sym, chunk) ==
    IF sym = <<>> THEN <<>>
    ELSE IF Head(sym) = chunk THEN Tail(sym)
    ELSE <<Head(sym)>> \o ReplaceFirst(Tail(sym), chunk)

analyzeTicker(tickerData) ==
    LET priceChangePercent == parseFloat(tickerData.priceChangePercent)
        volatility == calculateVolatilityScore(priceChangePercent)
        signal == detectSignal(tickerData)
    IN  [symbol |-> tickerData.symbol,
         baseAsset |-> ReplaceFirst(tickerData.symbol, "USDT"),
         price |-> parseFloat(tickerData.lastPrice),
         priceChangePercent |-> priceChangePercent,
         quoteVolume |-> parseFloat(tickerData.quoteVolume),
         volatility |-> volatility,
         signal |-> signal,
         raw |-> tickerData]


\* every ticker the model passes to analyzeTickerArray
RawTickers ==
    {RawTicker(sym, f[1], f[2], f[3]) : sym \in Symbols, f \in SnapshotFields}
    \cup UNION {Range(s) : s \in TenTickerSnapshots}
    \cup UNION {Range(r) : r \in Responses}

\* analyzeTicker on every ticker of RawTickers, evaluated once
AnalyzedTicker == [t \in RawTickers |-> analyzeTicker(t)]

\* analyzeTickerArray that gives up at the first ticker whose priceChangePercent
\* cannot be read: the records before it are all it returns
analyzeTickerArrayAbort(tickerDataArray) ==
    LET bad == {i \in 1..Len(tickerDataArray) :
                    parseFloat(tickerDataArray[i].priceChangePercent).nan}
        n == IF bad = {} THEN Len(tickerDataArray)
             ELSE (CHOOSE i \in bad : \A j \in bad : i <= j) - 1
    IN  [i \in 1..n |-> AnalyzedTicker[tickerDataArray[i]]]

\* analyzeTickerArray returning the records last ticker first
analyzeTickerArrayReversed(tickerDataArray) ==
    [i \in 1..Len(tickerDataArray) |->
        AnalyzedTicker[tickerDataArray[Len(tickerDataArray) + 1 - i]]]

\* tickerDataArray.map(ticker => analyzeTicker(ticker))
analyzeTickerArray(tickerDataArray) ==
    [i \in 1..Len(tickerDataArray) |-> AnalyzedTicker[tickerDataArray[i]]]

\* Array.prototype.slice(0, end): a negative end counts from the end of the array
Slice0(s, end) ==
    LET e == IF end < 0 THEN (IF Len(s) + end < 0 THEN 0 ELSE Len(s) + end)
             ELSE (IF end > Len(s) THEN Len(s) ELSE end)
    IN  SubSeq(s, 1, e)

\* the comparator of getTopGainers: (a, b) => b.priceChangePercent - a.priceChangePercent
CompareGainers(a, b) == Minus(b.priceChangePercent, a.priceChangePercent)

\* Array.prototype.sort with CompareGainers; the sort is stable (ECMAScript 2019):
\* an element is placed before the first element it compares strictly less than
RECURSIVE InsertSorted(_, _)
InsertSorted(sorted, x) ==
    IF sorted = <<>> THEN <<x>>
    ELSE IF Lt(CompareGainers(x, Head(sorted)), Int2Num(0))
         THEN <<x>> \o sorted
         ELSE <<Head(sorted)>> \o InsertSorted(Tail(sorted), x)

RECURSIVE SortGainers(_)
SortGainers(s) ==
    IF s = <<>> THEN <<>>
    ELSE InsertSorted(SortGainers(SubSeq(s, 1, Len(s) - 1)), s[Len(s)])

\* getTopGainers with the comparator reversed: a.priceChangePercent - b.priceChangePercent
RECURSIVE InsertSortedAscending(_, _)
InsertSortedAscending(sorted, x) ==
    IF sorted = <<>> THEN <<x>>
    ELSE IF Lt(CompareGainers(Head(sorted), x), Int2Num(0))
         THEN <<x>> \o sorted
         ELSE <<Head(sorted)>> \o InsertSortedAscending(Tail(sorted), x)

RECURSIVE SortGainersAscending(_)
SortGainersAscending(s) ==
    IF s = <<>> THEN <<>>
    ELSE InsertSortedAscending(SortGainersAscending(SubSeq(s, 1, Len(s) - 1)), s[Len(s)])

IsGainer(item) == Gt(item.priceChangePercent, Int2Num(0))

getTopGainersAscending(analyzedData, limit) ==
    Slice0(SortGainersAscending(SelectSeq(analyzedData, IsGainer)), limit)

getTopGainers(analyzedData, limit) ==
    Slice0(SortGainers(SelectSeq(analyzedData, IsGainer)), limit)

IsActiveSignal(item) == item.signal.type # "NEUTRAL"

getActiveSignals(analyzedData) == SelectSeq(analyzedData, IsActiveSignal)

\* previousSignals.get(symbol) after the forEach of detectNewSignals has filled the
\* Map: the type set last for the symbol, "undefined" when none was set
PreviousSignalsGet(previousData, symbol) ==
    LET hits == {i \in 1..Len(previousData) :
                    /\ previousData[i].signal.type # "NEUTRAL"
                    /\ previousData[i].symbol = symbol}
    IN  IF hits = {} THEN "undefined"
        ELSE previousData[CHOOSE i \in hits : \A j \in hits : j <= i].signal.type

\* detectNewSignals without the type comparison on line 179: only symbols that
\* carried no signal count as new
detectNewSignalsAbsentOnly(previousData, currentData) ==
    IF Len(previousData) = 0
    THEN getActiveSignals(currentData)
    ELSE LET IsNew(item) ==
                 /\ item.signal.type # "NEUTRAL"
                 /\ PreviousSignalsGet(previousData, item.symbol) = "undefined"
         IN  SelectSeq(currentData, IsNew)

\* detectNewSignals reading its two parameters the other way round
detectNewSignalsSwapped(previousData, currentData) ==
    IF Len(currentData) = 0
    THEN getActiveSignals(previousData)
    ELSE LET IsNew(item) ==
                 /\ item.signal.type # "NEUTRAL"
                 /\ LET previousSignal == PreviousSignalsGet(currentData, item.symbol)
                    IN  previousSignal = "undefined" \/ previousSignal # item.signal.type
         IN  SelectSeq(previousData, IsNew)

detectNewSignals(previousData, currentData) ==
    IF Len(previousData) = 0
    THEN getActiveSignals(currentData)
    ELSE LET IsNew(item) ==
                 /\ item.signal.type # "NEUTRAL"
                 /\ LET previousSignal == PreviousSignalsGet(previousData, item.symbol)
                    IN  previousSignal = "undefined" \/ previousSignal # item.signal.type
         IN  SelectSeq(currentData, IsNew)

----------------------------------------------------------------------------
\* processData and the document events it triggers

\* the argument of processData: an array, or no array at all
ArrayArg(items) == [isArray |-> TRUE, items |-> items]
UndefinedArg == [isArray |-> FALSE, items |-> <<>>]

Event(name, data) == [name |-> name, data |-> data]

\* processDataSteps with line 206 moved before line 200: the set is stored first
\* and the diff then reads the stored set
processDataStepsStoreFirst(previous, analyzedData) ==
    LET newSigs == detectNewSignals(analyzedData, analyzedData)
        topGainers == getTopGainers(analyzedData, 5)
    IN  [newSignals |-> newSigs,
         previousAnalyzedData |-> analyzedData,
         events |-> <<Event("dataAnalyzed", analyzedData),
                      Event("topGainersUpdated", topGainers)>>
                    \o (IF Len(newSigs) > 0
                        THEN <<Event("newSignalsDetected", newSigs)>>
                        ELSE <<>>)]

\* processDataSteps without the length test on line 213: newSignalsDetected is
\* triggered in every call
processDataStepsAlwaysEmit(previous, analyzedData) ==
    LET newSigs == detectNewSignals(previous, analyzedData)
        topGainers == getTopGainers(analyzedData, 5)
    IN  [newSignals |-> newSigs,
         previousAnalyzedData |-> analyzedData,
         events |-> <<Event("dataAnalyzed", analyzedData),
                      Event("topGainersUpdated", topGainers),
                      Event("newSignalsDetected", newSigs)>>]

\* processDataSteps that skips line 206 when the analyzed set is empty: the set
\* of the call before stays retained
processDataStepsKeepOnEmpty(previous, analyzedData) ==
    LET newSigs == detectNewSignals(previous, analyzedData)
        topGainers == getTopGainers(analyzedData, 5)
    IN  [newSignals |-> newSigs,
         previousAnalyzedData |-> IF Len(analyzedData) = 0 THEN previous ELSE analyzedData,
         events |-> <<Event("dataAnalyzed", analyzedData),
                      Event("topGainersUpdated", topGainers)>>
                    \o (IF Len(newSigs) > 0
                        THEN <<Event("newSignalsDetected", newSigs)>>
                        ELSE <<>>)]

\* processData after line 197, on the analyzed set: the diff against the retained
\* set, the ranking, the set retained for the next call, and the events triggered
processDataSteps(previous, analyzedData) ==
    LET newSigs == detectNewSignals(previous, analyzedData)
        topGainers == getTopGainers(analyzedData, 5)
    IN  [newSignals |-> newSigs,
         previousAnalyzedData |-> analyzedData,
         events |-> <<Event("dataAnalyzed", analyzedData),
                      Event("topGainersUpdated", topGainers)>>
                    \o (IF Len(newSigs) > 0
                        THEN <<Event("newSignalsDetected", newSigs)>>
                        ELSE <<>>)]

\* the dataAnalyzed handler of UIStream: renderCryptoTable and updateCryptoTable
\* both store the set they receive
OnDataAnalyzed(analyzedData) == allCryptoData' = analyzedData

\* processData(arg).  tickerDataArray.map raises a TypeError when there is no
\* array: the call ends there, before any assignment or trigger.
processData(arg) ==
    /\ lastTickerData' = arg
    /\ IF ~arg.isArray
       THEN /\ threw' = TRUE
            /\ events' = <<>>
            /\ newSignals' = <<>>
            /\ UNCHANGED <<previousAnalyzedData, allCryptoData>>
       ELSE \E analyzedData \in {analyzeTickerArray(arg.items)} :
            \E l \in {processDataSteps(previousAnalyzedData, analyzedData)} :
                /\ threw' = FALSE
                /\ previousAnalyzedData' = l.previousAnalyzedData
                /\ events' = l.events
                /\ newSignals' = l.newSignals
                /\ OnDataAnalyzed(l.events[1].data)

----------------------------------------------------------------------------
\* The logic engine fed by tickerDataReceived events

\* APIClient before startPolling: lines 23-25, no fetch made, no timer set
ClientIdle ==
    /\ isPolling = FALSE
    /\ pollingInterval = 0
    /\ intervalTimers = {}
    /\ timerCount = 0
    /\ retryCount = 0
    /\ connectionStatus = "none"
    /\ fetches = {}
    /\ retryTimers = 0
    /\ fetchCount = 0
    /\ running = <<>>
    /\ lastPoll = 0
    /\ settled = [id |-> 0, awaited |-> FALSE, ok |-> FALSE, data |-> <<>>, events |-> <<>>]

\* the "waiting" message of the log panel and a log item
WaitingMessage == [class |-> "text-center", n |-> 0]
LogItem(n) == [class |-> "signal-log-item", n |-> n]

\* the log panel before any signal: the waiting message
UiIdle ==
    /\ signalLogs = <<WaitingMessage>>
    /\ logClock = 0
    /\ logsLength = 0

Init ==
    /\ previousAnalyzedData = <<>>
    /\ allCryptoData = <<>>
    /\ events = <<>>
    /\ newSignals = <<>>
    /\ threw = FALSE
    /\ lastTickerData = UndefinedArg
    /\ ret = [fn |-> "none"]
    /\ ClientIdle
    /\ UiIdle
    /\ directCalls = <<>>

\* the tickerDataReceived handler: processData on the snapshot the event carries
OnTickerDataReceived ==
    /\ \E snapshot \in Snapshots : processData(ArrayArg(snapshot))
    /\ UNCHANGED <<ret, clientVars, uiVars, directCalls>>

Next == OnTickerDataReceived

Spec == Init /\ [][Next]_vars

----------------------------------------------------------------------------
\* Direct calls of the public functions of LogicEngine: a call is drawn, then made

EngineIdle ==
    /\ previousAnalyzedData = <<>>
    /\ allCryptoData = <<>>
    /\ events = <<>>
    /\ newSignals = <<>>
    /\ threw = FALSE
    /\ lastTickerData = UndefinedArg

RankInputs == {analyzeTickerArray(s) : s \in Snapshots}

DiffInputs == {analyzeTickerArray(s) : s \in SnapshotsOver(SignalFields)}

\* symbols with the quote currency at the end, not at all, at the start, twice,
\* and in the middle
AnalyzeSymbols ==
    { <<"BTC", "USDT">>, <<"ETH", "BTC">>, <<"USDT", "TRY">>, <<"USDT", "USDT">>,
      <<"BTC", "USDT", "UP">>, <<"USDT">> }

AnalyzeInputs ==
    {RawTicker(sym, f[1], f[2], f[3]) : sym \in AnalyzeSymbols, f \in SnapshotFields}

InitCalls ==
    /\ EngineIdle
    /\ ClientIdle
    /\ UiIdle
    /\ directCalls = <<>>
    /\ \/ \E p \in PctInputs :
            ret = [fn |-> "calculateVolatilityScore", done |-> FALSE, arg |-> p]
       \/ \E t \in SignalTickers :
            ret = [fn |-> "detectSignal", done |-> FALSE, arg |-> t]
       \/ \E a \in RankInputs, limit \in (0 - 1)..MaxLimit :
            ret = [fn |-> "getTopGainers", done |-> FALSE, arg |-> a, limit |-> limit]
       \/ \E prev \in DiffInputs, cur \in DiffInputs :
            ret = [fn |-> "detectNewSignals", done |-> FALSE, previous |-> prev, current |-> cur]
       \/ \E t \in AnalyzeInputs :
            ret = [fn |-> "analyzeTicker", done |-> FALSE, arg |-> t]

CallCalculateVolatilityScore ==
    /\ ret.fn = "calculateVolatilityScore" /\ ~ret.done
    /\ ret' = [fn |-> ret.fn, done |-> TRUE, arg |-> ret.arg,
               value |-> calculateVolatilityScore(ret.arg)]
    /\ UNCHANGED <<engineVars, clientVars, uiVars, directCalls>>

CallDetectSignal ==
    /\ ret.fn = "detectSignal" /\ ~ret.done
    /\ ret' = [fn |-> ret.fn, done |-> TRUE, arg |-> ret.arg,
               value |-> detectSignal(ret.arg)]
    /\ UNCHANGED <<engineVars, clientVars, uiVars, directCalls>>

CallGetTopGainers ==
    /\ ret.fn = "getTopGainers" /\ ~ret.done
    /\ ret' = [fn |-> ret.fn, done |-> TRUE, arg |-> ret.arg, limit |-> ret.limit,
               value |-> getTopGainers(ret.arg, ret.limit)]
    /\ UNCHANGED <<engineVars, clientVars, uiVars, directCalls>>

CallDetectNewSignals ==
    /\ ret.fn = "detectNewSignals" /\ ~ret.done
    /\ ret' = [fn |-> ret.fn, done |-> TRUE, previous |-> ret.previous,
               current |-> ret.current,
               value |-> detectNewSignals(ret.previous, ret.current)]
    /\ UNCHANGED <<engineVars, clientVars, uiVars, directCalls>>

CallAnalyzeTicker ==
    /\ ret.fn = "analyzeTicker" /\ ~ret.done
    /\ ret' = [fn |-> ret.fn, done |-> TRUE, arg |-> ret.arg,
               value |-> analyzeTicker(ret.arg)]
    /\ UNCHANGED <<engineVars, clientVars, uiVars, directCalls>>

NextCalls ==
    \/ CallCalculateVolatilityScore
    \/ CallDetectSignal
    \/ CallGetTopGainers
    \/ CallDetectNewSignals
    \/ CallAnalyzeTicker

SpecCalls == InitCalls /\ [][NextCalls]_vars

----------------------------------------------------------------------------
\* Calls of LogicEngine.processData and LogicEngine.detectNewSignals through the
\* public API (lines 240-251), in any order; processData is also called with no
\* argument

DirectSnapshots ==
    { <<>>,
      <<RawTicker(SymbolPool[1], WhaleFields[1], WhaleFields[2], WhaleFields[3])>>,
      <<RawTicker(SymbolPool[1], PanicFields[1], PanicFields[2], PanicFields[3])>>,
      <<RawTicker(SymbolPool[1], WhaleFields[1], WhaleFields[2], WhaleFields[3]),
        RawTicker(SymbolPool[2], BoundaryFields[1], BoundaryFields[2], BoundaryFields[3])>>,
      <<RawTicker(SymbolPool[2], WhaleFields[1], WhaleFields[2], WhaleFields[3]),
        RawTicker(SymbolPool[1], MalformedFields[1], MalformedFields[2], MalformedFields[3])>> }

DirectDiffInputs == {analyzeTickerArray(s) : s \in DirectSnapshots}

\* directCalls after one more call: the oldest is dropped beyond MaxCalls
Remember(calls, call) ==
    IF Len(calls) < MaxCalls THEN Append(calls, call) ELSE Append(Tail(calls), call)

\* LogicEngine.processData(snapshot)
CallProcessData ==
    /\ \E snapshot \in DirectSnapshots : processData(ArrayArg(snapshot))
    /\ ret' = [fn |-> "processData", done |-> TRUE]
    /\ UNCHANGED <<clientVars, uiVars, directCalls>>

\* LogicEngine.processData()
CallProcessDataAbsent ==
    /\ processData(UndefinedArg)
    /\ ret' = [fn |-> "processData", done |-> TRUE]
    /\ UNCHANGED <<clientVars, uiVars, directCalls>>

\* detectNewSignals that keeps its second argument as the retained set
detectNewSignalsCallRetaining(previousData, currentData, retained) ==
    [value |-> detectNewSignals(previousData, currentData),
     previousData |-> previousData,
     currentData |-> currentData,
     previousAnalyzedData |-> currentData]

\* a call of detectNewSignals with the module's retained set at the time of the
\* call: the value returned, and the two arrays and the retained set after the
\* call.  The body reads its arguments with forEach, filter and Map.get and
\* assigns to none of them nor to previousAnalyzedData.
detectNewSignalsCall(previousData, currentData, retained) ==
    [value |-> detectNewSignals(previousData, currentData),
     previousData |-> previousData,
     currentData |-> currentData,
     previousAnalyzedData |-> retained]

\* LogicEngine.detectNewSignals(previous, current)
CallDetectNewSignalsDirect ==
    /\ \E prev \in DirectDiffInputs, cur \in DirectDiffInputs :
       \E c \in {detectNewSignalsCall(prev, cur, previousAnalyzedData)} :
           /\ ret' = [fn |-> "detectNewSignals", done |-> TRUE,
                      previous |-> prev, current |-> cur,
                      previousAfter |-> c.previousData, currentAfter |-> c.currentData,
                      value |-> c.value]
           /\ previousAnalyzedData' = c.previousAnalyzedData
    /\ UNCHANGED <<allCryptoData, events, newSignals, threw, lastTickerData, clientVars, uiVars, directCalls>>

NextDirect ==
    \/ CallProcessData
    \/ CallProcessDataAbsent
    \/ CallDetectNewSignalsDirect

SpecDirect == Init /\ [][NextDirect]_vars

----------------------------------------------------------------------------
\* Sequences of direct processData calls, each kept with what it reported

\* LogicEngine.processData(snapshot), kept in directCalls
CallProcessDataKept ==
    /\ \E snapshot \in DirectSnapshots : processData(ArrayArg(snapshot))
    /\ ret' = [fn |-> "processData", done |-> TRUE]
    /\ directCalls' = Remember(directCalls, [arg |-> lastTickerData', newSignals |-> newSignals'])
    /\ UNCHANGED <<clientVars, uiVars>>

\* LogicEngine.processData(), kept in directCalls
CallProcessDataAbsentKept ==
    /\ processData(UndefinedArg)
    /\ ret' = [fn |-> "processData", done |-> TRUE]
    /\ directCalls' = Remember(directCalls, [arg |-> lastTickerData', newSignals |-> newSignals'])
    /\ UNCHANGED <<clientVars, uiVars>>

NextSequence ==
    \/ CallProcessDataKept
    \/ CallProcessDataAbsentKept

SpecSequence == Init /\ [][NextSequence]_vars

----------------------------------------------------------------------------
\* APIClient: the polling loop, its fetches and retries, and the processData calls
\* its tickerDataReceived events start.  The page runs on one event loop: a task
\* (an interval or timeout callback, the continuation of a settled fetch, a call of
\* the public API) starts only when no function activation is on the call stack.

MAX_RETRIES == 3

\* item.symbol.endsWith('USDT')
EndsWithUSDT(item) == item.symbol # <<>> /\ item.symbol[Len(item.symbol)] = "USDT"

\* the comparator of fetchTickerData: parseFloat(b.quoteVolume) - parseFloat(a.quoteVolume)
CompareVolume(a, b) == Minus(parseFloat(b.quoteVolume), parseFloat(a.quoteVolume))

\* Array.prototype.sort with CompareVolume (stable)
RECURSIVE InsertByVolume(_, _)
InsertByVolume(sorted, x) ==
    IF sorted = <<>> THEN <<x>>
    ELSE IF Lt(CompareVolume(x, Head(sorted)), Int2Num(0))
         THEN <<x>> \o sorted
         ELSE <<Head(sorted)>> \o InsertByVolume(Tail(sorted), x)

RECURSIVE SortByVolume(_)
SortByVolume(s) ==
    IF s = <<>> THEN <<>>
    ELSE InsertByVolume(SortByVolume(SubSeq(s, 1, Len(s) - 1)), s[Len(s)])

\* the array a successful fetchTickerData returns for the response body data
usdtPairs(data) == Slice0(SortByVolume(SelectSeq(data, EndsWithUSDT)), 100)

\* processData with an await between the diff and the assignment of line 206
ProcessDataAwaitsAfterDiff(step) == step = "diffed"

\* whether processData gives the event loop back at the given point of its body:
\* it is a plain function without await, so it never does
ProcessDataAwaits(step) == FALSE

Suspended(activation) == ProcessDataAwaits(activation.step)

\* no activation is on the call stack: the event loop may start a task
LoopIdle == \A i \in 1..Len(running) : Suspended(running[i])

\* fetchTickerData up to its first await
StartFetch(awaited) ==
    /\ fetchCount < MaxFetches
    /\ fetchCount' = fetchCount + 1
    /\ fetches' = fetches \cup {[id |-> fetchCount + 1, awaited |-> awaited]}

\* processData from its entry through line 203: the snapshot is analyzed and
\* diffed against the retained set, which is read here
processDataBegin(tickerDataArray, poll) ==
    LET analyzedData == analyzeTickerArray(tickerDataArray)
    IN  [step |-> "diffed",
         poll |-> poll,
         tickerData |-> tickerDataArray,
         previous |-> previousAnalyzedData,
         l |-> processDataSteps(previousAnalyzedData, analyzedData)]

\* processTickerData with the tickerDataError trigger in a finally block
processTickerDataEventsFinally(ok, handlerThrew) ==
    (IF ok THEN <<"tickerDataReceived">> ELSE <<>>) \o <<"tickerDataError">>

\* the events processTickerData triggers once its fetchTickerData has settled:
\* tickerDataReceived is triggered inside the try block, so an exception of one
\* of its handlers is caught as well and tickerDataError follows
processTickerDataEvents(ok, handlerThrew) ==
    IF ok
    THEN <<"tickerDataReceived">> \o (IF handlerThrew THEN <<"tickerDataError">> ELSE <<>>)
    ELSE <<"tickerDataError">>

\* isPollingActive()
isPollingActive == isPolling

\* startPolling without the test of lines 118-121
StartPollingNeverReturnsEarly(polling) == FALSE

\* whether startPolling returns at line 120, given isPolling
StartPollingReturnsEarly(polling) == polling

\* startPolling(): a call while polling returns at once; otherwise the first
\* processTickerData run is started and the interval timer is set
StartPolling ==
    /\ LoopIdle
    /\ IF StartPollingReturnsEarly(isPolling)
       THEN /\ ret' = [fn |-> "startPolling", done |-> TRUE, returnedEarly |-> TRUE]
            /\ UNCHANGED <<isPolling, connectionStatus, fetches, fetchCount,
                           pollingInterval, intervalTimers, timerCount>>
       ELSE /\ isPolling' = TRUE
            /\ connectionStatus' = "connecting"
            /\ StartFetch(TRUE)
            /\ timerCount' = timerCount + 1
            /\ intervalTimers' = intervalTimers \cup {timerCount + 1}
            /\ pollingInterval' = timerCount + 1
            /\ ret' = [fn |-> "startPolling", done |-> TRUE, returnedEarly |-> FALSE]
    /\ UNCHANGED <<retryCount, retryTimers, running, lastPoll, settled, engineVars, uiVars, directCalls>>

\* stopPolling(): the timer pollingInterval names, if any, is cleared
StopPolling ==
    /\ LoopIdle
    /\ intervalTimers' = IF pollingInterval # 0
                         THEN intervalTimers \ {pollingInterval}
                         ELSE intervalTimers
    /\ pollingInterval' = 0
    /\ isPolling' = FALSE
    /\ ret' = [fn |-> "stopPolling", done |-> TRUE]
    /\ UNCHANGED <<timerCount, retryCount, connectionStatus, fetches, retryTimers, fetchCount,
                   running, lastPoll, settled, engineVars, uiVars, directCalls>>

\* the callback of an interval timer that is set: processTickerData up to its await
PollTick ==
    /\ LoopIdle
    /\ intervalTimers # {}
    /\ StartFetch(TRUE)
    /\ UNCHANGED <<isPolling, pollingInterval, intervalTimers, timerCount, retryCount,
                   connectionStatus, retryTimers, running, lastPoll, settled, engineVars,
                   ret, uiVars, directCalls>>

\* a fetch answers with an ok status and a body that parses: fetchTickerData
\* returns the USDT pairs, and the processTickerData awaiting it, if any, triggers
\* tickerDataReceived, whose handler calls processData
FetchSucceeds ==
    /\ LoopIdle
    /\ \E f \in fetches, data \in Responses :
        /\ fetches' = fetches \ {f}
        /\ retryCount' = 0
        /\ connectionStatus' = "connected"
        /\ running' = IF f.awaited
                      THEN Append(running, processDataBegin(usdtPairs(data), f.id))
                      ELSE running
        /\ settled' = [id |-> f.id, awaited |-> f.awaited, ok |-> TRUE,
                       data |-> usdtPairs(data),
                       events |-> IF f.awaited
                                  THEN processTickerDataEvents(
                                           TRUE, ~ArrayArg(usdtPairs(data)).isArray)
                                  ELSE <<>>]
    /\ UNCHANGED <<isPolling, pollingInterval, intervalTimers, timerCount, retryTimers,
                   fetchCount, lastPoll,
                   engineVars, ret, uiVars, directCalls>>

\* a fetch is rejected, answers with a status that is not ok, or its body does not
\* parse: the catch block of fetchTickerData; the processTickerData awaiting it,
\* if any, triggers tickerDataError, which has no handler
FetchFails ==
    /\ LoopIdle
    /\ \E f \in fetches :
        /\ fetches' = fetches \ {f}
        /\ settled' = [id |-> f.id, awaited |-> f.awaited, ok |-> FALSE, data |-> <<>>,
                       events |-> IF f.awaited
                                  THEN processTickerDataEvents(FALSE, FALSE)
                                  ELSE <<>>]
    /\ retryCount' = retryCount + 1
    /\ connectionStatus' = "error"
    /\ retryTimers' = IF retryCount + 1 < MAX_RETRIES THEN retryTimers + 1 ELSE retryTimers
    /\ UNCHANGED <<isPolling, pollingInterval, intervalTimers, timerCount, fetchCount,
                   running, lastPoll,
                   engineVars, ret, uiVars, directCalls>>

\* the retry timeout callback: fetchTickerData() with its result dropped
RetryTimerFires ==
    /\ LoopIdle
    /\ retryTimers > 0
    /\ retryTimers' = retryTimers - 1
    /\ StartFetch(FALSE)
    /\ UNCHANGED <<isPolling, pollingInterval, intervalTimers, timerCount, retryCount,
                   connectionStatus, running,
                   lastPoll, settled, engineVars, ret, uiVars, directCalls>>

\* processData from line 206 to its return: the analyzed set is retained and the
\* events are triggered.  The activation on the call stack goes on; a suspended
\* activation goes on when the event loop resumes it.
ProcessDataStore ==
    \E i \in 1..Len(running) :
        /\ \A j \in 1..Len(running) : j # i => Suspended(running[j])
        /\ lastTickerData' = ArrayArg(running[i].tickerData)
        /\ threw' = FALSE
        /\ previousAnalyzedData' = running[i].l.previousAnalyzedData
        /\ events' = running[i].l.events
        /\ newSignals' = running[i].l.newSignals
        /\ OnDataAnalyzed(running[i].l.events[1].data)
        /\ running' = SubSeq(running, 1, i - 1) \o SubSeq(running, i + 1, Len(running))
        /\ lastPoll' = running[i].poll
        /\ UNCHANGED <<isPolling, pollingInterval, intervalTimers, timerCount, retryCount,
                       connectionStatus, fetches,
                       retryTimers, fetchCount, settled, ret, uiVars, directCalls>>

NextClient ==
    \/ StartPolling
    \/ StopPolling
    \/ PollTick
    \/ FetchSucceeds
    \/ FetchFails
    \/ RetryTimerFires
    \/ ProcessDataStore

SpecClient == Init /\ [][NextClient]_vars

----------------------------------------------------------------------------
\* UIStream: the signal log panel, fed by the newSignalsDetected events of
\* processData, by direct calls of UIStream.addSignalLog and emptied by the clear
\* button.  A log item is identified by the time of its addSignalLog call; its
\* text is not modelled.

LOG_LIMIT == 50

IsLogItem(child) == child.class = "signal-log-item"
IsNotWaitingMessage(child) == child.class # "text-center"

\* addSignalLog without the test and the removal of lines 502-504
addSignalLogUncapped(logs, cryptoData, clock) ==
    LET prepended == <<LogItem(clock + 1)>> \o SelectSeq(logs, IsNotWaitingMessage)
    IN  [signalLogs |-> prepended,
         logsLength |-> Len(SelectSeq(prepended, IsLogItem))]

\* addSignalLog(cryptoData) on the panel logs at time clock: the waiting message
\* is removed, the item is prepended, and of the items found in document order
\* those from index 50 on are removed
addSignalLog(logs, cryptoData, clock) ==
    LET prepended == <<LogItem(clock + 1)>> \o SelectSeq(logs, IsNotWaitingMessage)
        ItemsUpTo(i) == Len(SelectSeq(SubSeq(prepended, 1, i), IsLogItem))
        length == ItemsUpTo(Len(prepended))
        kept == {i \in 1..Len(prepended) :
                    ~IsLogItem(prepended[i]) \/ ItemsUpTo(i) <= LOG_LIMIT}
        Nth(k) == CHOOSE i \in kept : Cardinality({j \in kept : j <= i}) = k
    IN  [signalLogs |-> IF length > LOG_LIMIT
                        THEN [k \in 1..Cardinality(kept) |-> prepended[Nth(k)]]
                        ELSE prepended,
         logsLength |-> length]

\* newSignals.forEach(signalData => addSignalLog(signalData)): the panel and
\* $logs.length after the calls
RECURSIVE AddSignalLogs(_, _, _, _)
AddSignalLogs(logs, length, batch, clock) ==
    IF batch = <<>> THEN [signalLogs |-> logs, logsLength |-> length]
    ELSE LET r == addSignalLog(logs, Head(batch), clock)
         IN  AddSignalLogs(r.signalLogs, r.logsLength, Tail(batch), clock + 1)

\* the newSignalsDetected handler of UIStream
OnNewSignalsDetected(batch) ==
    /\ logClock + Len(batch) <= MaxLogCalls
    /\ \E r \in {AddSignalLogs(signalLogs, logsLength, batch, logClock)} :
           /\ signalLogs' = r.signalLogs
           /\ logsLength' = r.logsLength
    /\ logClock' = logClock + Len(batch)

\* a tickerDataReceived event: processData, and the newSignalsDetected handler
\* when processData triggers the event
OnTickerDataReceivedUI ==
    /\ \E snapshot \in DirectSnapshots : processData(ArrayArg(snapshot))
    /\ OnNewSignalsDetected(newSignals')
    /\ UNCHANGED <<ret, clientVars, directCalls>>

\* UIStream.addSignalLog(cryptoData)
CallAddSignalLog ==
    /\ \E batch \in {<<x>> : x \in {a[1] : a \in DirectDiffInputs \ {<<>>}}} :
           OnNewSignalsDetected(batch)
    /\ UNCHANGED <<engineVars, ret, clientVars, directCalls>>

\* the click handler of #clearLogsBtn
ClickClearLogs ==
    /\ signalLogs' = <<WaitingMessage>>
    /\ UNCHANGED <<logClock, logsLength, engineVars, ret, clientVars, directCalls>>

NextUI ==
    \/ OnTickerDataReceivedUI
    \/ CallAddSignalLog
    \/ ClickClearLogs

SpecUI == Init /\ [][NextUI]_vars

----------------------------------------------------------------------------
\* Properties

\* the records of current that carry a signal which previous does not carry for
\* the same symbol, in current's order
ChangedSignals(previous, current) ==
    LET Changed(item) ==
            /\ item.signal.type # "NEUTRAL"
            /\ ~\E j \in 1..Len(previous) :
                    /\ previous[j].symbol = item.symbol
                    /\ previous[j].signal.type = item.signal.type
    IN  SelectSeq(current, Changed)

\* C1: in every processData call made for a tickerDataReceived event, the new
\* signals are the diff of the call's analyzed set against the set retained from the
\* call before (empty before the first call), and the call leaves its own analyzed
\* set retained.  A symbol that was WHALE_ACTIVITY in the call before is absent from
\* the new signals when it is WHALE_ACTIVITY again and present when it is PANIC_SELL.
C1_NewSignalsDiffPreviousCall ==
    [][ LET analyzed == analyzeTickerArray(lastTickerData'.items)
        IN  /\ previousAnalyzedData' = analyzed
            /\ newSignals' = ChangedSignals(previousAnalyzedData, analyzed)
            /\ \A i \in 1..Len(analyzed) : \A j \in 1..Len(previousAnalyzedData) :
                  ( /\ previousAnalyzedData[j].symbol = analyzed[i].symbol
                    /\ previousAnalyzedData[j].signal.type = "WHALE_ACTIVITY" )
                  => /\ analyzed[i].signal.type = "WHALE_ACTIVITY"
                           => analyzed[i] \notin Range(newSignals')
                     /\ analyzed[i].signal.type = "PANIC_SELL"
                           => analyzed[i] \in Range(newSignals')
      ]_vars

\* a second call has left a WHALE_ACTIVITY record out of its new signals (it was
\* WHALE_ACTIVITY in the call before) and reported a PANIC_SELL record
C1_Witness ==
    /\ lastTickerData.isArray
    /\ \E x \in Range(previousAnalyzedData) :
          x.signal.type = "WHALE_ACTIVITY" /\ x \notin Range(newSignals)
    /\ \E y \in Range(previousAnalyzedData) :
          y.signal.type = "PANIC_SELL" /\ y \in Range(newSignals)

\* a direct call of fn has returned
Returned(fn) == ret.fn = fn /\ ret.done

\* C2: detectNewSignals(previous, current) returns, in current's order, exactly the
\* records of current that are not NEUTRAL and whose symbol has no record of the
\* same signal type in previous; it returns no NEUTRAL record and only records of
\* current, and with an empty previous it returns every non-neutral record.
C2_DetectNewSignalsIsTheDiff ==
    Returned("detectNewSignals") =>
        /\ ret.value = ChangedSignals(ret.previous, ret.current)
        /\ \A x \in Range(ret.value) : x.signal.type # "NEUTRAL" /\ x \in Range(ret.current)
        /\ \A i \in 1..Len(ret.current) :
              ret.current[i] \in Range(ret.value) <=>
                  /\ ret.current[i].signal.type # "NEUTRAL"
                  /\ \A j \in 1..Len(ret.previous) :
                        ret.previous[j].symbol = ret.current[i].symbol
                        => /\ ret.previous[j].signal.type # ret.current[i].signal.type
        /\ Len(ret.previous) = 0 =>
              ret.value = SelectSeq(ret.current, IsActiveSignal)

\* a call where one symbol changed its signal type and is returned, and another
\* kept its type and is not
C2_Witness ==
    /\ Returned("detectNewSignals")
    /\ \E x \in Range(ret.current), y \in Range(ret.previous) :
          /\ x.symbol = y.symbol /\ y.signal.type = "WHALE_ACTIVITY"
          /\ x.signal.type = "PANIC_SELL" /\ x \in Range(ret.value)
    /\ \E x \in Range(ret.current), y \in Range(ret.previous) :
          /\ x.symbol = y.symbol /\ y.signal.type = x.signal.type
          /\ x.signal.type # "NEUTRAL" /\ x \notin Range(ret.value)

\* a whole number of units between lo and hi
IsIntegerIn(n, lo, hi) == ~n.nan /\ n.v % Scale = 0 /\ lo * Scale <= n.v /\ n.v <= hi * Scale

\* C3: calculateVolatilityScore returns an integer score in [0,100] for every
\* number and for NaN; for NaN the score is 0 and the level is low.
C3_ScoreInRangeAlsoForNaN ==
    Returned("calculateVolatilityScore") =>
        /\ IsIntegerIn(ret.value.score, 0, 100)
        /\ ret.arg.nan => ret.value.score = Int2Num(0) /\ ret.value.level = "low"

\* C4: detectSignal returns WHALE_ACTIVITY with priority high when
\* priceChangePercent > 3.0 and quoteVolume > 1,000,000, otherwise PANIC_SELL with
\* priority high when priceChangePercent < -3.0, otherwise NEUTRAL with priority
\* low; exactly 3.0 and exactly -3.0 give NEUTRAL; the priority is high exactly when
\* the type is not NEUTRAL.
C4_DetectSignalRules ==
    Returned("detectSignal") =>
        LET p == parseFloat(ret.arg.priceChangePercent)
            q == parseFloat(ret.arg.quoteVolume)
            whale == ~p.nan /\ ~q.nan /\ p.v > 3 * Scale /\ q.v > 1000000 * Scale
            panic == ~p.nan /\ p.v < 0 - 3 * Scale
        IN  /\ whale => ret.value.type = "WHALE_ACTIVITY"
            /\ ~whale /\ panic => ret.value.type = "PANIC_SELL"
            /\ ~whale /\ ~panic => ret.value.type = "NEUTRAL"
            /\ ~p.nan /\ (p.v = 3 * Scale \/ p.v = 0 - 3 * Scale)
                  => ret.value.type = "NEUTRAL"
            /\ ret.value.priority = (IF ret.value.type = "NEUTRAL" THEN "low" ELSE "high")
            /\ ret.value.type \in SIGNAL_TYPES

\* detectSignal has returned NEUTRAL for priceChangePercent 3.0 with quoteVolume 2,000,000
C4_Witness ==
    /\ Returned("detectSignal")
    /\ parseFloat(ret.arg.priceChangePercent) = Int2Num(3)
    /\ parseFloat(ret.arg.quoteVolume) = Int2Num(2000000)
    /\ ret.value.type = "NEUTRAL"

\* C5 as stated: a record whose priceChangePercent or quoteVolume is not numeric
\* gets NEUTRAL.
C5_Original ==
    ( /\ Returned("detectSignal")
      /\ \/ parseFloat(ret.arg.priceChangePercent).nan
         \/ parseFloat(ret.arg.quoteVolume).nan )
    => ret.value.type = "NEUTRAL"

\* C5: a record whose priceChangePercent is not numeric gets NEUTRAL; a record whose
\* quoteVolume is not numeric never gets WHALE_ACTIVITY: it gets PANIC_SELL when its
\* priceChangePercent is below -3.0 and NEUTRAL otherwise.
C5_NaNFailsTheComparisons ==
    Returned("detectSignal") =>
        LET p == parseFloat(ret.arg.priceChangePercent)
            q == parseFloat(ret.arg.quoteVolume)
        IN  /\ p.nan => ret.value.type = "NEUTRAL"
            /\ q.nan => ret.value.type =
                            (IF ~p.nan /\ p.v < 0 - 3 * Scale THEN "PANIC_SELL" ELSE "NEUTRAL")

\* detectSignal has returned NEUTRAL for an unreadable priceChangePercent next to a
\* quoteVolume above the whale threshold
C5_Witness ==
    /\ Returned("detectSignal")
    /\ parseFloat(ret.arg.priceChangePercent).nan
    /\ Gt(parseFloat(ret.arg.quoteVolume), WHALE_THRESHOLD_VOLUME)
    /\ ret.value.type = "NEUTRAL"

\* C6: for a number p, |p| < 2.0 gives level low and a score in [0,30],
\* 2.0 <= |p| < 5.0 gives level medium and a score in [0,70], |p| >= 5.0 gives
\* level high and a score in [0,100]; p and -p give the same result.
C6_LevelAndScoreByBand ==
    ( Returned("calculateVolatilityScore") /\ ~ret.arg.nan ) =>
        LET a == IF ret.arg.v < 0 THEN 0 - ret.arg.v ELSE ret.arg.v
        IN  /\ a < 2 * Scale
                  => ret.value.level = "low" /\ IsIntegerIn(ret.value.score, 0, 30)
            /\ 2 * Scale <= a /\ a < 5 * Scale
                  => ret.value.level = "medium" /\ IsIntegerIn(ret.value.score, 0, 70)
            /\ a >= 5 * Scale
                  => ret.value.level = "high" /\ IsIntegerIn(ret.value.score, 0, 100)
            /\ ret.value = calculateVolatilityScore(Num(0 - ret.arg.v))

\* calculateVolatilityScore has returned level high for -5.0
C6_Witness ==
    /\ Returned("calculateVolatilityScore")
    /\ ret.arg = Int2Num(0 - 5)
    /\ ret.value.level = "high"

\* r is the ranking of a cut at limit: the records of a with a change above 0, by
\* falling change, equal changes in the order of a, the first limit of them
IsRanking(a, limit, r) ==
    LET pos == {i \in 1..Len(a) : ~a[i].priceChangePercent.nan /\ a[i].priceChangePercent.v > 0}
        Idx(x) == CHOOSE i \in 1..Len(a) : a[i] = x
        Before(i, j) ==
            \/ a[i].priceChangePercent.v > a[j].priceChangePercent.v
            \/ a[i].priceChangePercent.v = a[j].priceChangePercent.v /\ i < j
    IN  /\ Len(r) = IF limit < Cardinality(pos) THEN limit ELSE Cardinality(pos)
        /\ \A k \in 1..Len(r) : r[k] \in {a[i] : i \in pos}
        /\ \A k \in 1..(Len(r) - 1) : Before(Idx(r[k]), Idx(r[k + 1]))
        /\ \A i \in pos : a[i] \notin Range(r) => \A k \in 1..Len(r) : Before(Idx(r[k]), i)

\* C7: for limit >= 0, getTopGainers(set, limit) returns the records with a change
\* strictly above 0, by falling change, ties in input order, cut to the first limit
\* records: never more than limit records, never a record with a change <= 0 or NaN.
C7_TopGainersRanking ==
    ( Returned("getTopGainers") /\ ret.limit >= 0 ) =>
        /\ IsRanking(ret.arg, ret.limit, ret.value)
        /\ Len(ret.value) <= ret.limit
        /\ \A x \in Range(ret.value) : Gt(x.priceChangePercent, Int2Num(0))

\* getTopGainers with limit 5 on 3 positive and 7 negative changes has returned
\* the 3 positive records, 7.0 before 2.5 before 0.1
C7_Witness ==
    /\ Returned("getTopGainers")
    /\ ret.limit = 5
    /\ Len(ret.arg) = 10
    /\ Cardinality({i \in 1..10 : Lt(ret.arg[i].priceChangePercent, Int2Num(0))}) = 7
    /\ Len(ret.value) = 3
    /\ ret.value[1].priceChangePercent = Int2Num(7)
    /\ ret.value[3].priceChangePercent = Num(Scale \div 10)

\* the events of the last call that carry the given name
EventsNamed(name) == SelectSeq(events, LAMBDA e : e.name = name)

\* C8: a processData call triggers dataAnalyzed once, with the full analyzed set,
\* and topGainersUpdated once, with the top 5 gainers; it triggers
\* newSignalsDetected exactly when its new-signals list is not empty, once, with
\* that list.
C8_EventsOfACall ==
    lastTickerData.isArray =>
        LET analyzed == analyzeTickerArray(lastTickerData.items)
        IN  /\ EventsNamed("dataAnalyzed") = <<Event("dataAnalyzed", analyzed)>>
            /\ Len(EventsNamed("topGainersUpdated")) = 1
            /\ IsRanking(analyzed, 5, EventsNamed("topGainersUpdated")[1].data)
            /\ Len(newSignals) = 0 => EventsNamed("newSignalsDetected") = <<>>
            /\ Len(newSignals) > 0 =>
                  EventsNamed("newSignalsDetected") = <<Event("newSignalsDetected", newSignals)>>
            /\ Len(events) = IF Len(newSignals) > 0 THEN 3 ELSE 2

\* a call has triggered all three events, with 5 of more than 5 gainers
C8_Witness ==
    /\ lastTickerData.isArray
    /\ Len(events) = 3
    /\ Len(events[2].data) = 5
    /\ Cardinality({i \in 1..Len(events[1].data) : IsGainer(events[1].data[i])}) > 5
    /\ events[3].data = newSignals

\* C9: processData calls do not interleave on the retained set.  Whatever the
\* order of polls, fetch completions and retries, at most one processData call is
\* between its read of the retained set (the diff) and its assignment to it, and
\* the retained set is still the one that call read: no other call has assigned it
\* in between.
C9_ProcessDataRunsToCompletion ==
    /\ Len(running) <= 1
    /\ \A i \in 1..Len(running) : running[i].previous = previousAnalyzedData

\* a processData call has made its diff against the set an earlier call retained
\* and is about to retain a different one, after a failed fetch whose retry is
\* still pending
C9_Witness ==
    /\ Len(running) = 1
    /\ previousAnalyzedData # <<>>
    /\ running[1].previous = previousAnalyzedData
    /\ running[1].l.previousAnalyzedData # previousAnalyzedData
    /\ retryTimers > 0

\* a numeric-as-text field of the ticker cannot be read
IsMalformed(t) ==
    \/ parseFloat(t.priceChangePercent).nan
    \/ parseFloat(t.quoteVolume).nan
    \/ parseFloat(t.lastPrice).nan

\* the analyzed set has one record per ticker of the snapshot, each the analysis of
\* its own ticker alone, every unreadable field NaN
OneRecordPerTicker(items, analyzed) ==
    /\ Len(analyzed) = Len(items)
    /\ \A i \in 1..Len(items) :
          /\ analyzed[i].raw = items[i]
          /\ analyzed[i] = analyzeTicker(items[i])
          /\ parseFloat(items[i].priceChangePercent).nan => analyzed[i].priceChangePercent.nan
          /\ parseFloat(items[i].quoteVolume).nan => analyzed[i].quoteVolume.nan
          /\ parseFloat(items[i].lastPrice).nan => analyzed[i].price.nan

\* C10 as stated: one analyzed record per ticker, each the analysis of its own
\* ticker, and a ticker with an unreadable numeric field gets NaN fields and NEUTRAL.
C10_Original ==
    lastTickerData.isArray =>
        /\ OneRecordPerTicker(lastTickerData.items, events[1].data)
        /\ \A i \in 1..Len(lastTickerData.items) :
              IsMalformed(lastTickerData.items[i])
              => events[1].data[i].signal.type = "NEUTRAL"

\* C10: a snapshot with unreadable numeric fields is analyzed whole: one analyzed
\* record per ticker, each the analysis of its own ticker alone, every unreadable
\* field NaN; the signal is NEUTRAL when priceChangePercent is unreadable and is
\* not WHALE_ACTIVITY when quoteVolume is.
C10_MalformedRecordKeepsBatch ==
    lastTickerData.isArray =>
        /\ OneRecordPerTicker(lastTickerData.items, events[1].data)
        /\ \A i \in 1..Len(lastTickerData.items) :
              /\ parseFloat(lastTickerData.items[i].priceChangePercent).nan
                    => events[1].data[i].signal.type = "NEUTRAL"
              /\ parseFloat(lastTickerData.items[i].quoteVolume).nan
                    => events[1].data[i].signal.type # "WHALE_ACTIVITY"

\* a snapshot whose first ticker has no readable field has been analyzed, and the
\* ticker after it is a WHALE_ACTIVITY record
C10_Witness ==
    /\ lastTickerData.isArray
    /\ Len(lastTickerData.items) = 2
    /\ parseFloat(lastTickerData.items[1].priceChangePercent).nan
    /\ Len(events[1].data) = 2
    /\ events[1].data[1].signal.type = "NEUTRAL"
    /\ events[1].data[2].signal.type = "WHALE_ACTIVITY"

\* C11: a processData call without an array is valid input: it raises no error,
\* triggers dataAnalyzed and topGainersUpdated with empty sets and does not trigger
\* newSignalsDetected.
C11_AbsentSnapshotIsValid ==
    (ret.fn = "processData" /\ ~lastTickerData.isArray) =>
        /\ ~threw
        /\ Len(events) = 2
        /\ events[1] = Event("dataAnalyzed", <<>>)
        /\ events[2] = Event("topGainersUpdated", <<>>)

\* what a processData call on an empty snapshot triggers
EmptySnapshotEvents == <<Event("dataAnalyzed", <<>>), Event("topGainersUpdated", <<>>)>>

\* C12: a processData call on an empty snapshot triggers dataAnalyzed with an empty
\* set and topGainersUpdated with an empty list, and does not trigger
\* newSignalsDetected, whatever set the call before retained.
C12_EmptySnapshotEmptyOutputs ==
    /\ \A i \in 1..Len(running) :
          running[i].tickerData = <<>> =>
              /\ running[i].l.events = EmptySnapshotEvents
              /\ running[i].l.newSignals = <<>>
    /\ lastTickerData = ArrayArg(<<>>) =>
          /\ events = EmptySnapshotEvents
          /\ newSignals = <<>>
          /\ allCryptoData = <<>>

\* a processData call on an empty snapshot has made its diff against a retained
\* set that carries a signal
C12_Witness ==
    /\ Len(running) = 1
    /\ running[1].tickerData = <<>>
    /\ running[1].previous = previousAnalyzedData
    /\ \E x \in Range(running[1].previous) : x.signal.type # "NEUTRAL"

\* C13: a negative limit is rejected and never used to rank: no getTopGainers call
\* with limit < 0 returns a ranking.
C13_NegativeLimitNeverRanks ==
    ( Returned("getTopGainers") /\ ret.limit < 0 ) => ret.value = <<>>

\* |p| in units of 1/Scale
AbsUnits(p) == IF p.v < 0 THEN 0 - p.v ELSE p.v

\* the numbers of the low band, |q| < 2.0
LowBandInputs == {Num(k) : k \in (1 - 2 * Scale)..(2 * Scale - 1)}

\* C14: within the low band the score does not decrease when |p| grows: for all p,
\* q with |p| <= |q| < 2.0, score(p) <= score(q).
C14_LowBandMonotone ==
    ( Returned("calculateVolatilityScore") /\ ~ret.arg.nan /\ AbsUnits(ret.arg) < 2 * Scale ) =>
        \A q \in LowBandInputs :
            AbsUnits(ret.arg) <= AbsUnits(q) =>
                /\ ~ret.value.score.nan
                /\ ret.value.score.v <= calculateVolatilityScore(q).score.v

\* calculateVolatilityScore has returned 15 for 1.0, and the largest number of the
\* low band scores more
C14_Witness ==
    /\ Returned("calculateVolatilityScore")
    /\ ret.arg = Int2Num(1)
    /\ ret.value.score = Int2Num(15)
    /\ calculateVolatilityScore(Num(2 * Scale - 1)).score.v > 15 * Scale

\* C15: for every p with |p| >= 50.0 the score is exactly 100 and the level high.
C15_SaturatesFrom50 ==
    ( Returned("calculateVolatilityScore") /\ ~ret.arg.nan /\ AbsUnits(ret.arg) >= 50 * Scale ) =>
        /\ ret.value.score = Int2Num(100)
        /\ ret.value.level = "high"

\* calculateVolatilityScore has returned score 100 for -50.0 and for a number
\* above 50.0
C15_Witness ==
    /\ Returned("calculateVolatilityScore")
    /\ ret.arg \in {Int2Num(0 - 50), Num(50 * Scale + 1)}
    /\ ret.value.score = Int2Num(100)

\* round(n / d) for n >= 0 and d > 0, halves upwards
RefRound(n, d) == (2 * n + d) \div (2 * d)

\* the reference formula on a = |p| in units of 1/Scale, clamped to [0,100]
RefScore(a) ==
    LET raw == IF a >= 5 * Scale
               THEN RefRound(IF 10 * a < 100 * Scale THEN 10 * a ELSE 100 * Scale, Scale)
               ELSE IF a >= 2 * Scale
               THEN RefRound(14 * a, Scale)
               ELSE RefRound(15 * a, Scale)
    IN  IF raw > 100 THEN 100 ELSE IF raw < 0 THEN 0 ELSE raw

\* C16: for every number p with a = |p| the score is the reference formula's value
\* clamped to [0,100]: round(min(100, a/10*100)) when a >= 5.0, round(a/5.0*70)
\* when 2.0 <= a < 5.0, round(a/2.0*30) when a < 2.0.
C16_ScoreIsReferenceFormula ==
    ( Returned("calculateVolatilityScore") /\ ~ret.arg.nan ) =>
        ret.value.score = Int2Num(RefScore(AbsUnits(ret.arg)))

\* calculateVolatilityScore has rounded a half upwards: 0.1 scores round(1.5) = 2,
\* and 2.5 scores round(35) = 35 in the medium band, 7.5 scores 75 in the high band
C16_Witness ==
    /\ Returned("calculateVolatilityScore")
    /\ \/ ret.arg = Num(Scale \div 10) /\ ret.value.score = Int2Num(2)
       \/ ret.arg = Num(0 - (5 * Scale) \div 2) /\ ret.value.score = Int2Num(35)
       \/ ret.arg = Num((15 * Scale) \div 2) /\ ret.value.score = Int2Num(75)

\* C17: a detectNewSignals call changes neither of its two arguments nor the
\* retained set, and the retained set changes only in a processData call.
C17_DetectNewSignalsIsPure ==
    [][ /\ ret'.fn = "detectNewSignals" =>
              /\ ret'.previousAfter = ret'.previous
              /\ ret'.currentAfter = ret'.current
              /\ previousAnalyzedData' = previousAnalyzedData
        /\ previousAnalyzedData' # previousAnalyzedData => ret'.fn = "processData"
      ]_vars

\* detectNewSignals has returned new signals for two sets, neither of which is
\* the retained one, while a set with a signal is retained
C17_Witness ==
    /\ ret.fn = "detectNewSignals"
    /\ ret.value # <<>>
    /\ previousAnalyzedData # <<>>
    /\ ret.current # previousAnalyzedData
    /\ ret.previous # previousAnalyzedData
    /\ \E x \in Range(previousAnalyzedData) : x.signal.type # "NEUTRAL"

\* symbol without its last chunk when that chunk is USDT, symbol itself otherwise
StripSuffix(symbol) ==
    IF symbol # <<>> /\ symbol[Len(symbol)] = "USDT"
    THEN SubSeq(symbol, 1, Len(symbol) - 1)
    ELSE symbol

\* C18: baseAsset is symbol with the suffix USDT removed from its end; a symbol
\* that does not end with USDT is its own baseAsset, also when it contains USDT
\* elsewhere.
C18_BaseAssetStripsSuffix ==
    Returned("analyzeTicker") => ret.value.baseAsset = StripSuffix(ret.arg.symbol)

\* C19: analyzeTickerArray keeps order and length: the analyzed set of a snapshot
\* has as many records as the snapshot, and its i-th record carries the symbol of
\* the i-th ticker and refers to it as raw.
C19_OrderAndLengthPreserved ==
    lastTickerData.isArray =>
        /\ Len(previousAnalyzedData) = Len(lastTickerData.items)
        /\ DOMAIN previousAnalyzedData = DOMAIN lastTickerData.items
        /\ \A i \in DOMAIN lastTickerData.items :
              /\ previousAnalyzedData[i].symbol = lastTickerData.items[i].symbol
              /\ previousAnalyzedData[i].raw = lastTickerData.items[i]

\* a snapshot of ten tickers with ten different symbols has been analyzed into ten
\* records, the first with the first symbol of the snapshot and the last with the
\* last
C19_Witness ==
    /\ lastTickerData.isArray
    /\ Len(lastTickerData.items) = 10
    /\ Cardinality({lastTickerData.items[i].symbol : i \in 1..10}) = 10
    /\ Len(previousAnalyzedData) = 10
    /\ previousAnalyzedData[1].symbol = SymbolPool[1]
    /\ previousAnalyzedData[10].symbol = SymbolPool[10]

\* the log items of the panel, top first
LogItems == SelectSeq(signalLogs, IsLogItem)

\* C20: the log panel holds at most 50 log items, the most recent first; the
\* items are the most recent ones added since the panel was last cleared, so the
\* items removed by the limit are the oldest.
C20_LogHoldsTheFiftyMostRecent ==
    /\ Len(LogItems) <= 50
    /\ \A i \in 1..Len(LogItems) : LogItems[i].n = logClock + 1 - i
    /\ \A i \in 1..Len(LogItems) : \A j \in 1..Len(LogItems) :
          i < j => LogItems[i].n > LogItems[j].n

\* the last addSignalLog call found 51 items and the panel holds 50, the one on
\* top from that call
C20_Witness ==
    /\ logsLength = 51
    /\ Len(LogItems) = 50
    /\ LogItems[1].n = logClock
    /\ LogItems[50].n = logClock - 49

\* C21: snapshots reach processData in the order their polls were started: a
\* snapshot that processData is diffing comes from a later poll than every snapshot
\* it was called with before.
C21_SnapshotsInPollOrder ==
    \A i \in 1..Len(running) : running[i].poll > lastPoll

\* C22: every fetchTickerData call that succeeds, one started by the retry timer
\* included, leads to a tickerDataReceived event with the fetched tickers, and so
\* to a processData call on them.
C22_EverySuccessfulFetchIsDelivered ==
    settled.ok =>
        /\ settled.events = <<"tickerDataReceived">>
        /\ \/ \E i \in 1..Len(running) :
                  running[i].poll = settled.id /\ running[i].tickerData = settled.data
           \/ lastPoll = settled.id /\ lastTickerData = ArrayArg(settled.data)

C24_OnePollingTimer ==
    /\ [](/\ Cardinality(intervalTimers) <= 1
          /\ isPollingActive <=> intervalTimers # {}
          /\ intervalTimers = IF pollingInterval = 0 THEN {} ELSE {pollingInterval})
    /\ [][ /\ (ret' # ret /\ ret'.fn = "startPolling" /\ isPolling) =>
                   (/\ intervalTimers' = intervalTimers
                    /\ timerCount' = timerCount
                    /\ fetches' = fetches
                    /\ fetchCount' = fetchCount)
           /\ (ret' # ret /\ ret'.fn = "stopPolling") =>
                   (/\ intervalTimers' = {}
                    /\ ~isPolling')
          ]_vars

\* polling was started, stopped and started again, and the last call was a
\* startPolling while polling: one timer is set, the second one
C24_Witness ==
    /\ ret.fn = "startPolling"
    /\ ret.returnedEarly
    /\ isPolling
    /\ timerCount = 2
    /\ intervalTimers = {2}
    /\ fetchCount = 2

\* whether call j of directCalls is the first one given an array after call i
NextSnapshotAfter(i, j) ==
    /\ i < j
    /\ directCalls[j].arg.isArray
    /\ \A k \in (i + 1)..(j - 1) : ~directCalls[k].arg.isArray

\* the signals of a record sequence, as (symbol, type) pairs
SignalsOf(records) ==
    {<<records[n].symbol, records[n].signal.type>> : n \in 1..Len(records)}

\* C25: once processData was called with an empty snapshot the retained set is
\* empty, and the next snapshot is diffed as a first run: its new signals are all
\* of its non-neutral records.
C25_EmptySnapshotResetsTheDiff ==
    /\ (directCalls # <<>> /\ directCalls[Len(directCalls)].arg = ArrayArg(<<>>)) =>
           previousAnalyzedData = <<>>
    /\ \A i \in 1..Len(directCalls), j \in 1..Len(directCalls) :
           (directCalls[i].arg = ArrayArg(<<>>) /\ NextSnapshotAfter(i, j)) =>
               directCalls[j].newSignals =
                   SelectSeq(analyzeTickerArray(directCalls[j].arg.items), IsActiveSignal)

\* a signal was reported, an empty snapshot followed, and the snapshot after it
\* reported the same signal of the same symbol again
C25_Witness ==
    /\ Len(directCalls) = 3
    /\ directCalls[2].arg = ArrayArg(<<>>)
    /\ directCalls[3].arg.isArray
    /\ SignalsOf(directCalls[1].newSignals) \cap SignalsOf(directCalls[3].newSignals) # {}

====
